---- MODULE Spec2Model ----
(***************************************************************************)
(* Model of train_export_g2p_model.py: the CMU dictionary parser, the       *)
(* ARPABET to IPA converter, the character tables, element access of the   *)
(* dataset, the training loop and the ONNX export.                         *)
(*                                                                         *)
(* A Python string is a sequence of characters; a character is a TLA+      *)
(* string: an ASCII character stands for itself, any other character is    *)
(* written by its code point ("U+0259" is the schwa).                      *)
(***************************************************************************)
EXTENDS Integers, Sequences, FiniteSets, TLC

VARIABLES
    pc,            \* position of the run
    exc,           \* uncaught exception that ended the run, "none" otherwise
    args,          \* parsed command line of the train command
    cmu_dict,      \* lines of the file at args.cmu_dict
    char_mapper,   \* CharMapper instance, NoMapper before construction
    data,          \* CMUDictDataset.data
    lineno,        \* lines of cmu_dict consumed by the loading loop
    log,           \* records emitted through logger
    item,          \* index and value of the last __getitem__, idx = -1 before any
    arpabet,       \* argument of convert_arpabet_to_ipa
    ipa,           \* value returned by convert_arpabet_to_ipa
    split,         \* random_split result: indices of the two partitions
    epoch,         \* iterations of the epoch loop started
    batch,         \* batches consumed from the loader being iterated
    opt_steps,     \* optimizer.step() calls, the version of the parameters
    val_losses,    \* validation batches whose loss was computed
    disk,          \* files written by the run, path -> content
    onnx_result    \* value returned by export_to_onnx: "None", "True", "False"

vars == <<pc, exc, args, cmu_dict, char_mapper, data, lineno, log, item,
          arpabet, ipa, split, epoch, batch, opt_steps, val_losses, disk,
          onnx_result>>

NoValue == "None"

NoItem == [idx |-> -1, value |-> [word_tensor |-> <<>>, ipa_tensor |-> <<>>]]

NoMapper == [chars |-> <<>>, char_to_idx |-> <<>>, ipa_chars |-> <<>>, ipa_to_idx |-> <<>>]

NoSplit == [train |-> {}, val |-> {}]

(***************************************************************************)
(* Bounds of the model.                                                    *)
(***************************************************************************)
MaxPhones == 2      \* tokens per generated transcription
MaxLines == 2       \* lines per generated dictionary file
MaxSeqLen == 3      \* largest max_word_len / max_phoneme_len tried
MaxEpochs == 2      \* largest epoch count tried
MaxBatchSize == 2   \* largest batch size tried

(***************************************************************************)
(* Python built-ins used by the script.                                    *)
(***************************************************************************)
Whitespace == {" ", "\t", "\n", "\r"}

MinOf(S) == CHOOSE x \in S : \A y \in S : x <= y

MaxOf(S) == CHOOSE x \in S : \A y \in S : x >= y

Range(s) == {s[i] : i \in DOMAIN s}

\* str.startswith
StartsWith(s, prefix) ==
    /\ Len(s) >= Len(prefix)
    /\ SubSeq(s, 1, Len(prefix)) = prefix

\* str.strip() with no argument
Strip(s) ==
    LET keep == {i \in 1..Len(s) : s[i] \notin Whitespace}
    IN  IF keep = {} THEN <<>> ELSE SubSeq(s, MinOf(keep), MaxOf(keep))

\* str.find: first position of sub in s (1-based), 0 when absent
Find(s, sub) ==
    LET hits == {i \in 1..(Len(s) - Len(sub) + 1) : SubSeq(s, i, i + Len(sub) - 1) = sub}
    IN  IF hits = {} THEN 0 ELSE MinOf(hits)

\* str.split(sep, 1): at most one split, at the first occurrence of sep
SplitOnce(s, sep) ==
    LET i == Find(s, sep)
    IN  IF i = 0 THEN <<s>>
        ELSE <<SubSeq(s, 1, i - 1), SubSeq(s, i + Len(sep), Len(s))>>

\* str.split() with no argument: runs of whitespace separate, no empty token
RECURSIVE SplitWhitespace(_)
SplitWhitespace(s) ==
    LET starts == {i \in 1..Len(s) : s[i] \notin Whitespace}
    IN  IF starts = {} THEN <<>>
        ELSE LET b == MinOf(starts)
                 stops == {j \in b..Len(s) : s[j] \in Whitespace}
                 e == IF stops = {} THEN Len(s) + 1 ELSE MinOf(stops)
             IN  <<SubSeq(s, b, e - 1)>> \o SplitWhitespace(SubSeq(s, e, Len(s)))

\* ''.join(list)
RECURSIVE Join(_)
Join(list) ==
    IF list = <<>> THEN <<>> ELSE Head(list) \o Join(Tail(list))

UpperLetters ==
    <<"A", "B", "C", "D", "E", "F", "G", "H", "I", "J", "K", "L", "M",
      "N", "O", "P", "Q", "R", "S", "T", "U", "V", "W", "X", "Y", "Z">>

LowerLetters ==
    <<"a", "b", "c", "d", "e", "f", "g", "h", "i", "j", "k", "l", "m",
      "n", "o", "p", "q", "r", "s", "t", "u", "v", "w", "x", "y", "z">>

\* str.lower() on the characters of the model
Lower(s) ==
    [i \in 1..Len(s) |->
        IF s[i] \in Range(UpperLetters)
        THEN LowerLetters[CHOOSE k \in 1..26 : UpperLetters[k] = s[i]]
        ELSE s[i]]

\* {c: i for i, c in enumerate(list)}: a later occurrence overwrites an earlier one
EnumerateDict(list) ==
    [c \in Range(list) |-> MaxOf({i \in 1..Len(list) : list[i] = c}) - 1]

\* dict.get(key, default)
Get(dict, key, default) ==
    IF key \in DOMAIN dict THEN dict[key] ELSE default

\* list(dict.items()): keys in insertion order, a key keeps its first position
Items(list, dict) ==
    LET first == {i \in 1..Len(list) : \A j \in 1..(i - 1) : list[j] # list[i]}
        pos(k) == CHOOSE i \in first : Cardinality({j \in first : j <= i}) = k
    IN  [k \in 1..Cardinality(first) |-> <<list[pos(k)], dict[list[pos(k)]]>>]

(***************************************************************************)
(* CharMapper                                                              *)
(***************************************************************************)
GraphemeLetters ==
    <<
       "a", "b", "c", "d", "e", "f", "g", "h",
       "i", "j", "k", "l", "m", "n", "o", "p",
       "q", "r", "s", "t", "u", "v", "w", "x",
       "y", "z", "'", "-", "."
    >>

PhonemeLetters ==
    <<
       "U+0259", "U+0251", "U+00E6", "U+025B", "U+026A", "i", "o", "U+028A",
       "u", "U+028C", "U+025D", "U+025A", "U+0252", "a", "U+026A", "a",
       "U+028A", "U+0254", "U+026A", "U+02C8", "U+02CC", "b", "d", "f",
       "g", "h", "d", "U+0292", "k", "l", "m", "n",
       "U+014B", "p", "r", "s", "U+0283", "t", "t", "U+0283",
       "U+03B8", "U+00F0", "v", "w", "j", "z", "U+0292"
    >>

arpabet_to_ipa ==
    {
    <<<<"A", "A", "0">>, <<"U+0251">>>>,
    <<<<"A", "A", "1">>, <<"U+02C8", "U+0251">>>>,
    <<<<"A", "A", "2">>, <<"U+02CC", "U+0251">>>>,
    <<<<"A", "E", "0">>, <<"U+00E6">>>>,
    <<<<"A", "E", "1">>, <<"U+02C8", "U+00E6">>>>,
    <<<<"A", "E", "2">>, <<"U+02CC", "U+00E6">>>>,
    <<<<"A", "H", "0">>, <<"U+0259">>>>,
    <<<<"A", "H", "1">>, <<"U+02C8", "U+028C">>>>,
    <<<<"A", "H", "2">>, <<"U+02CC", "U+028C">>>>,
    <<<<"A", "O", "0">>, <<"U+0254">>>>,
    <<<<"A", "O", "1">>, <<"U+02C8", "U+0254">>>>,
    <<<<"A", "O", "2">>, <<"U+02CC", "U+0254">>>>,
    <<<<"A", "W", "0">>, <<"a", "U+028A">>>>,
    <<<<"A", "W", "1">>, <<"U+02C8", "a", "U+028A">>>>,
    <<<<"A", "W", "2">>, <<"U+02CC", "a", "U+028A">>>>,
    <<<<"A", "Y", "0">>, <<"a", "U+026A">>>>,
    <<<<"A", "Y", "1">>, <<"U+02C8", "a", "U+026A">>>>,
    <<<<"A", "Y", "2">>, <<"U+02CC", "a", "U+026A">>>>,
    <<<<"B">>, <<"b">>>>,
    <<<<"C", "H">>, <<"t", "U+0283">>>>,
    <<<<"D">>, <<"d">>>>,
    <<<<"D", "H">>, <<"U+00F0">>>>,
    <<<<"E", "H", "0">>, <<"U+025B">>>>,
    <<<<"E", "H", "1">>, <<"U+02C8", "U+025B">>>>,
    <<<<"E", "H", "2">>, <<"U+02CC", "U+025B">>>>,
    <<<<"E", "R", "0">>, <<"U+025A">>>>,
    <<<<"E", "R", "1">>, <<"U+02C8", "U+025D">>>>,
    <<<<"E", "R", "2">>, <<"U+02CC", "U+025D">>>>,
    <<<<"E", "Y", "0">>, <<"e", "U+026A">>>>,
    <<<<"E", "Y", "1">>, <<"U+02C8", "e", "U+026A">>>>,
    <<<<"E", "Y", "2">>, <<"U+02CC", "e", "U+026A">>>>,
    <<<<"F">>, <<"f">>>>,
    <<<<"G">>, <<"g">>>>,
    <<<<"H", "H">>, <<"h">>>>,
    <<<<"I", "H", "0">>, <<"U+026A">>>>,
    <<<<"I", "H", "1">>, <<"U+02C8", "U+026A">>>>,
    <<<<"I", "H", "2">>, <<"U+02CC", "U+026A">>>>,
    <<<<"I", "Y", "0">>, <<"i">>>>,
    <<<<"I", "Y", "1">>, <<"U+02C8", "i">>>>,
    <<<<"I", "Y", "2">>, <<"U+02CC", "i">>>>,
    <<<<"J", "H">>, <<"d", "U+0292">>>>,
    <<<<"K">>, <<"k">>>>,
    <<<<"L">>, <<"l">>>>,
    <<<<"M">>, <<"m">>>>,
    <<<<"N">>, <<"n">>>>,
    <<<<"N", "G">>, <<"U+014B">>>>,
    <<<<"O", "W", "0">>, <<"o", "U+028A">>>>,
    <<<<"O", "W", "1">>, <<"U+02C8", "o", "U+028A">>>>,
    <<<<"O", "W", "2">>, <<"U+02CC", "o", "U+028A">>>>,
    <<<<"O", "Y", "0">>, <<"U+0254", "U+026A">>>>,
    <<<<"O", "Y", "1">>, <<"U+02C8", "U+0254", "U+026A">>>>,
    <<<<"O", "Y", "2">>, <<"U+02CC", "U+0254", "U+026A">>>>,
    <<<<"P">>, <<"p">>>>,
    <<<<"R">>, <<"r">>>>,
    <<<<"S">>, <<"s">>>>,
    <<<<"S", "H">>, <<"U+0283">>>>,
    <<<<"T">>, <<"t">>>>,
    <<<<"T", "H">>, <<"U+03B8">>>>,
    <<<<"U", "H", "0">>, <<"U+028A">>>>,
    <<<<"U", "H", "1">>, <<"U+02C8", "U+028A">>>>,
    <<<<"U", "H", "2">>, <<"U+02CC", "U+028A">>>>,
    <<<<"U", "W", "0">>, <<"u">>>>,
    <<<<"U", "W", "1">>, <<"U+02C8", "u">>>>,
    <<<<"U", "W", "2">>, <<"U+02CC", "u">>>>,
    <<<<"V">>, <<"v">>>>,
    <<<<"W">>, <<"w">>>>,
    <<<<"Y">>, <<"j">>>>,
    <<<<"Z">>, <<"z">>>>,
    <<<<"Z", "H">>, <<"U+0292">>>>
    }

CharMapper ==
    LET chars == <<"<pad>", "<unk>">> \o GraphemeLetters
        ipa_chars == <<"<pad>", "<unk>">> \o PhonemeLetters
    IN  [chars |-> chars,
         char_to_idx |-> EnumerateDict(chars),
         ipa_chars |-> ipa_chars,
         ipa_to_idx |-> EnumerateDict(ipa_chars)]

(***************************************************************************)
(* CMUDictDataset.convert_arpabet_to_ipa                                   *)
(***************************************************************************)
ArpabetCodes == {e[1] : e \in arpabet_to_ipa}

Lookup(phone) == (CHOOSE e \in arpabet_to_ipa : e[1] = phone)[2]

Warning(phone) == <<"WARNING", "Unknown ARPABET phoneme", phone>>

\* variant of ConvertLoop that puts a placeholder where a code is unknown
RECURSIVE ConvertLoop_Placeholder(_, _, _)
ConvertLoop_Placeholder(phones, out, warnings) ==
    IF phones = <<>> THEN [ipa |-> out, warnings |-> warnings]
    ELSE IF Head(phones) \in ArpabetCodes
         THEN ConvertLoop_Placeholder(Tail(phones), Append(out, Lookup(Head(phones))),
                                      warnings)
         ELSE ConvertLoop_Placeholder(Tail(phones), Append(out, <<"<unk>">>),
                                      Append(warnings, Warning(Head(phones))))

\* the loop over arpabet.split(): the list ipa and the warnings logged
RECURSIVE ConvertLoop(_, _, _)
ConvertLoop(phones, out, warnings) ==
    IF phones = <<>> THEN [ipa |-> out, warnings |-> warnings]
    ELSE IF Head(phones) \in ArpabetCodes
         THEN ConvertLoop(Tail(phones), Append(out, Lookup(Head(phones))), warnings)
         ELSE ConvertLoop(Tail(phones), out, Append(warnings, Warning(Head(phones))))

convert_arpabet_to_ipa(s) ==
    LET r == ConvertLoop(SplitWhitespace(s), <<>>, <<>>)
    IN  [ipa |-> Join(r.ipa), warnings |-> r.warnings]

(***************************************************************************)
(* CMUDictDataset                                                          *)
(***************************************************************************)
CommentMarker == <<";", ";", ";">>

FieldSeparator == <<" ", " ">>

NoEntry == [append |-> <<>>, warnings |-> <<>>]

\* variant of ParseLine that keeps the pronunciation variants
ParseLine_KeepsVariants(line) ==
    LET parts == SplitOnce(Strip(line), FieldSeparator)
        word == Lower(parts[1])
        conv == convert_arpabet_to_ipa(parts[2])
    IN  IF StartsWith(line, CommentMarker) \/ Strip(line) = <<>> THEN NoEntry
        ELSE IF Len(parts) # 2 THEN NoEntry
        ELSE [append |-> <<<<word, conv.ipa>>>>, warnings |-> conv.warnings]

\* body of the loop over the lines of the file: the entries appended to
\* self.data (none or one) and the warnings logged by the converter
ParseLine(line) ==
    LET parts == SplitOnce(Strip(line), FieldSeparator)
        word == Lower(parts[1])
        conv == convert_arpabet_to_ipa(parts[2])
    IN  IF StartsWith(line, CommentMarker) \/ Strip(line) = <<>> THEN NoEntry
        ELSE IF Len(parts) # 2 THEN NoEntry
        ELSE IF "(" \in Range(word) THEN NoEntry
        ELSE [append |-> <<<<word, conv.ipa>>>>, warnings |-> conv.warnings]

\* torch.zeros(n, dtype=torch.long)
Zeros(n) == [i \in 1..n |-> 0]

\* seq[:n] for n >= 0
Slice(s, n) == SubSeq(s, 1, IF n < Len(s) THEN n ELSE Len(s))

\* for i, char in enumerate(symbols): tensor[i] = table.get(char, 1)
RECURSIVE AssignLoop(_, _, _, _)
AssignLoop(tensor, symbols, i, table) ==
    IF i > Len(symbols) THEN tensor
    ELSE AssignLoop([tensor EXCEPT ![i] = Get(table, symbols[i], 1)], symbols, i + 1, table)

\* variant of getitem that sizes the input sequence by max_phoneme_len
getitem_SwappedLength(entry, max_word_len, max_phoneme_len, mapper) ==
    [word_tensor |-> AssignLoop(Zeros(max_phoneme_len), Slice(entry[1], max_phoneme_len),
                                1, mapper.char_to_idx),
     ipa_tensor |-> AssignLoop(Zeros(max_phoneme_len), Slice(entry[2], max_phoneme_len),
                               1, mapper.ipa_to_idx)]

\* CMUDictDataset.__getitem__ on the entry (word, ipa)
getitem(entry, max_word_len, max_phoneme_len, mapper) ==
    [word_tensor |-> AssignLoop(Zeros(max_word_len), Slice(entry[1], max_word_len),
                                1, mapper.char_to_idx),
     ipa_tensor |-> AssignLoop(Zeros(max_phoneme_len), Slice(entry[2], max_phoneme_len),
                               1, mapper.ipa_to_idx)]

\* CMUDictDataset.__init__ up to the opening of the file
DatasetInit ==
    /\ pc = "dataset"
    /\ data' = <<>>
    /\ lineno' = 0
    /\ log' = Append(log, <<"INFO", "Loading CMU dictionary">>)
    /\ pc' = "lines"
    /\ UNCHANGED <<exc, args, cmu_dict, char_mapper, item, arpabet, ipa, split,
                   epoch, batch, opt_steps, val_losses, disk, onnx_result>>

\* one iteration of "for line in f"
LoadLine ==
    /\ pc = "lines"
    /\ lineno < Len(cmu_dict)
    /\ LET r == ParseLine(cmu_dict[lineno + 1])
       IN  /\ data' = data \o r.append
           /\ log' = log \o r.warnings
    /\ lineno' = lineno + 1
    /\ UNCHANGED <<pc, exc, args, cmu_dict, char_mapper, item, arpabet, ipa, split,
                   epoch, batch, opt_steps, val_losses, disk, onnx_result>>

\* end of the file: the constructor logs the count and returns
LoadDone ==
    /\ pc = "lines"
    /\ lineno = Len(cmu_dict)
    /\ log' = Append(log, <<"INFO", "Loaded words from CMU dictionary", Len(data)>>)
    /\ pc' = "loaded"
    /\ UNCHANGED <<exc, args, cmu_dict, char_mapper, data, lineno, item, arpabet, ipa,
                   split, epoch, batch, opt_steps, val_losses, disk, onnx_result>>

\* dataset[idx] for a valid index
ElementAccess ==
    /\ pc = "loaded"
    /\ \E idx \in 0..(Len(data) - 1) :
          item' = [idx |-> idx,
                   value |-> getitem(data[idx + 1], args.max_word_len,
                                     args.max_phoneme_len, char_mapper)]
    /\ UNCHANGED <<pc, exc, args, cmu_dict, char_mapper, data, lineno, log, arpabet,
                   ipa, split, epoch, batch, opt_steps, val_losses, disk, onnx_result>>

\* a call of convert_arpabet_to_ipa on its own
ConvertCall ==
    /\ pc = "convert"
    /\ LET r == convert_arpabet_to_ipa(arpabet)
       IN  /\ ipa' = r.ipa
           /\ log' = log \o r.warnings
    /\ pc' = "converted"
    /\ UNCHANGED <<exc, args, cmu_dict, char_mapper, data, lineno, item, arpabet,
                   split, epoch, batch, opt_steps, val_losses, disk, onnx_result>>

(***************************************************************************)
(* Paths and files                                                         *)
(***************************************************************************)
\* str.replace(old, new): every occurrence, left to right
RECURSIVE Replace(_, _, _)
Replace(s, old, new) ==
    LET i == Find(s, old)
    IN  IF i = 0 THEN s
        ELSE SubSeq(s, 1, i - 1) \o new
             \o Replace(SubSeq(s, i + Len(old), Len(s)), old, new)

\* str.rstrip('/')
RStripSlash(s) ==
    LET keep == {i \in 1..Len(s) : s[i] # "/"}
    IN  IF keep = {} THEN <<>> ELSE SubSeq(s, 1, MaxOf(keep))

\* os.path.dirname (posixpath)
Dirname(path) ==
    LET slashes == {i \in 1..Len(path) : path[i] = "/"}
        head == IF slashes = {} THEN <<>> ELSE SubSeq(path, 1, MaxOf(slashes))
    IN  IF head # <<>> /\ RStripSlash(head) # <<>> THEN RStripSlash(head) ELSE head

\* os.path.join(a, b) for a relative b
PathJoin(a, b) ==
    IF a = <<>> \/ a[Len(a)] = "/" THEN a \o b ELSE a \o <<"/">> \o b

\* open(path, 'w') and write: the file at path now holds content
WriteFile(files, path, content) ==
    [q \in (DOMAIN files) \cup {path} |-> IF q = path THEN content ELSE files[q]]

NoFiles == [q \in {} |-> NoValue]

CharToInputName == <<"c", "h", "a", "r", "_", "t", "o", "_", "i", "n", "p", "u", "t", ".", "t", "x", "t">>

IndexToIpaName == <<"i", "n", "d", "e", "x", "_", "t", "o", "_", "i", "p", "a", ".", "t", "x", "t">>

\* directories that exist when the run starts
ExistingDirs == {<<>>, <<"o">>, <<"r", ".", "p", "t">>}

\* CharMapper.save_mappings: the two files written
save_mappings(files, mapper, output_dir) ==
    LET items == Items(mapper.chars, mapper.char_to_idx)
        first == WriteFile(files, PathJoin(output_dir, CharToInputName),
                           [k \in 1..Len(items) |-> <<items[k][1], "\t", items[k][2]>>])
    IN  WriteFile(first, PathJoin(output_dir, IndexToIpaName),
                  [k \in 1..Len(mapper.ipa_chars) |-> <<k - 1, "\t", mapper.ipa_chars[k]>>])

(***************************************************************************)
(* G2PModel and train_model                                                *)
(***************************************************************************)
\* int(0.9 * n): equal to the integer quotient for the dataset sizes of the model
TrainSize(n) == (9 * n) \div 10

\* len(DataLoader(dataset of the given size, batch_size))
NumBatches(size, batch_size) == (size + batch_size - 1) \div batch_size

\* number of examples in batch k (0-based) of a loader
BatchLen(size, batch_size, k) ==
    IF size - k * batch_size < batch_size THEN size - k * batch_size ELSE batch_size

\* shapes of the two tensors of a collated batch of b examples of a partition
BatchShapes(indices, b) ==
    LET i == CHOOSE i \in indices : TRUE
        example == getitem(data[i + 1], args.max_word_len, args.max_phoneme_len,
                           char_mapper)
    IN  [word_batch |-> <<b, Len(example.word_tensor)>>,
         ipa_batch |-> <<b, Len(example.ipa_tensor)>>]

\* G2PModel.forward: shape of output_logits for an input of shape [batch, seq_len]
forward(input_shape) == <<input_shape[1], input_shape[2], Len(char_mapper.ipa_chars)>>

\* variant of LossDefined that compares the batch dimension only
LossDefined_BatchOnly(output_shape, target_shape) ==
    output_shape[1] = target_shape[1]

\* nn.CrossEntropyLoss on output.view(-1, output.size(2)) and target.view(-1):
\* the rows of the scores must match the number of targets
LossDefined(output_shape, target_shape) ==
    output_shape[1] * output_shape[2] = target_shape[1] * target_shape[2]

\* char_mapper = CharMapper()
MapperInit ==
    /\ pc = "start"
    /\ char_mapper' = CharMapper
    /\ pc' = "dataset"
    /\ UNCHANGED <<exc, args, cmu_dict, data, lineno, log, item, arpabet, ipa, split,
                   epoch, batch, opt_steps, val_losses, disk, onnx_result>>

\* random_split into 90% / 10% and the two DataLoaders; RandomSampler of the
\* shuffled loader rejects an empty partition on the torch builds that check
\* num_samples > 0
SplitDataset ==
    /\ pc = "loaded"
    /\ \E train \in SUBSET (0..(Len(data) - 1)) :
          /\ Cardinality(train) = TrainSize(Len(data))
          /\ split' = [train |-> train, val |-> (0..(Len(data) - 1)) \ train]
          /\ \/ /\ pc' = "model"
                /\ exc' = exc
             \/ /\ train = {}
                /\ pc' = "crashed"
                /\ exc' = "DataLoader: ValueError"
    /\ UNCHANGED <<args, cmu_dict, char_mapper, data, lineno, log, item, arpabet, ipa,
                   epoch, batch, opt_steps, val_losses, disk, onnx_result>>

\* G2PModel(...), the criterion and the optimizer; the parameters are the initial ones
CreateModel ==
    /\ pc = "model"
    /\ opt_steps' = 0
    /\ epoch' = 0
    /\ log' = Append(log, <<"INFO", "Starting training...">>)
    /\ pc' = "epoch"
    /\ UNCHANGED <<exc, args, cmu_dict, char_mapper, data, lineno, item, arpabet, ipa,
                   split, batch, val_losses, disk, onnx_result>>

\* variant of EpochBegin that runs one epoch more than asked
EpochBegin_OneMore ==
    /\ pc = "epoch"
    /\ epoch <= args.epochs
    /\ epoch' = epoch + 1
    /\ batch' = 0
    /\ pc' = "train"
    /\ UNCHANGED <<exc, args, cmu_dict, char_mapper, data, lineno, log, item, arpabet,
                   ipa, split, opt_steps, val_losses, disk, onnx_result>>

\* for epoch in range(args.epochs): model.train()
EpochBegin ==
    /\ pc = "epoch"
    /\ epoch < args.epochs
    /\ epoch' = epoch + 1
    /\ batch' = 0
    /\ pc' = "train"
    /\ UNCHANGED <<exc, args, cmu_dict, char_mapper, data, lineno, log, item, arpabet,
                   ipa, split, opt_steps, val_losses, disk, onnx_result>>

\* one training batch: forward, loss, backward, optimizer.step()
TrainBatch ==
    /\ pc = "train"
    /\ batch < NumBatches(Cardinality(split.train), args.batch_size)
    /\ LET b == BatchLen(Cardinality(split.train), args.batch_size, batch)
           shapes == BatchShapes(split.train, b)
       IN  IF LossDefined(forward(shapes.word_batch), shapes.ipa_batch)
           THEN /\ opt_steps' = opt_steps + 1
                /\ batch' = batch + 1
                /\ UNCHANGED <<pc, exc>>
           ELSE /\ pc' = "crashed"
                /\ exc' = "criterion: ValueError"
                /\ UNCHANGED <<opt_steps, batch>>
    /\ UNCHANGED <<args, cmu_dict, char_mapper, data, lineno, log, item, arpabet, ipa,
                   split, epoch, val_losses, disk, onnx_result>>

\* the training batches are exhausted: model.eval()
BeginValidation ==
    /\ pc = "train"
    /\ batch = NumBatches(Cardinality(split.train), args.batch_size)
    /\ batch' = 0
    /\ pc' = "validate"
    /\ UNCHANGED <<exc, args, cmu_dict, char_mapper, data, lineno, log, item, arpabet,
                   ipa, split, epoch, opt_steps, val_losses, disk, onnx_result>>

\* one validation batch under torch.no_grad(): forward and loss only
ValBatch ==
    /\ pc = "validate"
    /\ batch < NumBatches(Cardinality(split.val), args.batch_size)
    /\ LET b == BatchLen(Cardinality(split.val), args.batch_size, batch)
           shapes == BatchShapes(split.val, b)
       IN  IF LossDefined(forward(shapes.word_batch), shapes.ipa_batch)
           THEN /\ val_losses' = val_losses + 1
                /\ batch' = batch + 1
                /\ UNCHANGED <<pc, exc>>
           ELSE /\ pc' = "crashed"
                /\ exc' = "criterion: ValueError"
                /\ UNCHANGED <<val_losses, batch>>
    /\ UNCHANGED <<args, cmu_dict, char_mapper, data, lineno, log, item, arpabet, ipa,
                   split, epoch, opt_steps, disk, onnx_result>>

\* the epoch's log line divides by len(train_loader) and by len(val_loader)
EpochEnd ==
    /\ pc = "validate"
    /\ batch = NumBatches(Cardinality(split.val), args.batch_size)
    /\ IF NumBatches(Cardinality(split.train), args.batch_size) = 0
          \/ NumBatches(Cardinality(split.val), args.batch_size) = 0
       THEN /\ pc' = "crashed"
            /\ exc' = "ZeroDivisionError"
            /\ log' = log
       ELSE /\ pc' = "epoch"
            /\ exc' = exc
            /\ log' = Append(log, <<"INFO", "Epoch", epoch, args.epochs>>)
    /\ UNCHANGED <<args, cmu_dict, char_mapper, data, lineno, item, arpabet, ipa, split,
                   epoch, batch, opt_steps, val_losses, disk, onnx_result>>

\* torch.save(model.state_dict(), args.output_model)
SaveModel ==
    /\ pc = "epoch"
    /\ epoch = args.epochs
    /\ IF Dirname(args.output_model) \in ExistingDirs
       THEN /\ disk' = WriteFile(disk, args.output_model, <<"state_dict", opt_steps>>)
            /\ log' = Append(log, <<"INFO", "Model saved to", args.output_model>>)
            /\ pc' = "mappings"
            /\ exc' = exc
       ELSE /\ pc' = "crashed"
            /\ exc' = "torch.save: FileNotFoundError"
            /\ UNCHANGED <<disk, log>>
    /\ UNCHANGED <<args, cmu_dict, char_mapper, data, lineno, item, arpabet, ipa, split,
                   epoch, batch, opt_steps, val_losses, onnx_result>>

\* char_mapper.save_mappings(os.path.dirname(args.output_model))
SaveMappings ==
    /\ pc = "mappings"
    /\ disk' = save_mappings(disk, char_mapper, Dirname(args.output_model))
    /\ log' = Append(log, <<"INFO", "Character mappings saved to",
                            Dirname(args.output_model)>>)
    /\ pc' = "export"
    /\ UNCHANGED <<exc, args, cmu_dict, char_mapper, data, lineno, item, arpabet, ipa,
                   split, epoch, batch, opt_steps, val_losses, onnx_result>>

(***************************************************************************)
(* export_to_onnx                                                          *)
(***************************************************************************)
PtSuffix == <<".", "p", "t">>

OnnxSuffix == <<".", "o", "n", "n", "x">>

\* args.output_model.replace('.pt', '.onnx')
OnnxPath(output_model) == Replace(output_model, PtSuffix, OnnxSuffix)

\* export_to_onnx up to the verification: torch.onnx.export builds the graph and
\* writes it to onnx_path; the call is outside the try block, so an exception it
\* raises leaves export_to_onnx and train_model
ExportWrite ==
    /\ pc = "export"
    /\ LET onnx_path == OnnxPath(args.output_model)
       IN  \/ /\ Dirname(onnx_path) \in ExistingDirs
              /\ disk' = WriteFile(disk, onnx_path, <<"onnx", opt_steps>>)
              /\ log' = Append(log, <<"INFO", "Model exported to ONNX format", onnx_path>>)
              /\ pc' = "verify"
              /\ exc' = exc
           \/ /\ Dirname(onnx_path) \notin ExistingDirs
              /\ pc' = "crashed"
              /\ exc' = "torch.onnx.export: FileNotFoundError"
              /\ UNCHANGED <<disk, log>>
           \/ /\ pc' = "crashed"
              /\ exc' = "torch.onnx.export: error"
              /\ UNCHANGED <<disk, log>>
    /\ UNCHANGED <<args, cmu_dict, char_mapper, data, lineno, item, arpabet, ipa, split,
                   epoch, batch, opt_steps, val_losses, onnx_result>>

\* the try block: onnx.checker.check_model, then one ONNX Runtime inference
ExportVerify ==
    /\ pc = "verify"
    /\ \/ /\ log' = log \o <<<<"INFO", "ONNX model checked successfully">>,
                            <<"INFO", "ONNX Runtime inference test successful">>>>
          /\ onnx_result' = "True"
       \/ /\ log' = Append(log, <<"ERROR", "Error verifying ONNX model">>)
          /\ onnx_result' = "False"
       \/ /\ log' = log \o <<<<"INFO", "ONNX model checked successfully">>,
                            <<"ERROR", "Error verifying ONNX model">>>>
          /\ onnx_result' = "False"
    /\ pc' = "done"
    /\ UNCHANGED <<exc, args, cmu_dict, char_mapper, data, lineno, item, arpabet, ipa,
                   split, epoch, batch, opt_steps, val_losses, disk>>

(***************************************************************************)
(* Inputs                                                                  *)
(***************************************************************************)
SeqsUpTo(S, n) == UNION {[1..k -> S] : k \in 0..n}

PhoneTokens ==
    {<<"H", "H">>, <<"A", "H", "0">>, <<"L">>, <<"O", "W", "1">>, <<"E", "Y", "1">>,
     <<"Q">>, <<"A", "H">>, <<"h", "h">>}

Separators == {<<" ">>, <<" ", " ">>, <<"\t">>}

Margins == {<<>>, <<" ">>, <<"\n">>}

RECURSIVE JoinWith(_, _)
JoinWith(tokens, sep) ==
    IF tokens = <<>> THEN <<>>
    ELSE IF Len(tokens) = 1 THEN tokens[1]
    ELSE tokens[1] \o sep \o JoinWith(Tail(tokens), sep)

HelloArpabet == <<"H", "H", " ", "A", "H", "0", " ", "L", " ", "O", "W", "1">>

HelloIPA == <<"h", "U+0259", "l", "U+02C8", "o", "U+028A">>

ArpabetInputs ==
    {m \o JoinWith(t, s) \o m : t \in SeqsUpTo(PhoneTokens, MaxPhones),
                                s \in Separators, m \in Margins}
    \cup {HelloArpabet}

LineComment == <<";", ";", ";", " ", "c", "\n">>

LineBlank == <<"\n">>

LineSpaces == <<" ", " ", " ", "\n">>

LineHello == <<"H", "E", "L", "L", "O", " ", " ", "H", "H", " ", "A", "H", "0", " ", "L", " ", "O", "W", "1", "\n">>

LineVariant == <<"A", "(", "1", ")", " ", " ", "A", "H", "0", "\n">>

LineOneSpace == <<"H", "E", "L", "L", "O", " ", "H", "H", " ", "A", "H", "0", "\n">>

LineNoFields == <<"W", "O", "R", "D", "\n">>

LineTwoSeparators == <<"T", "O", " ", " ", "T", " ", " ", "U", "W", "1", "\n">>

LineFourSpaces == <<"A", " ", " ", " ", " ", "E", "Y", "1", "\n">>

LineCloseParen == <<"H", "I", ")", " ", " ", "H", "H", " ", "A", "Y", "1", "\n">>

LineIndentedComment == <<" ", ";", ";", ";", " ", " ", "K", "\n">>

LineDay == <<"D", "A", "Y", " ", " ", "D", " ", "E", "Y", "1", "\n">>

LineDigit == <<"B", "2", "B", " ", " ", "B", " ", "I", "Y", "1", "\n">>

LineApostrophe == <<"I", "T", "'", "S", " ", " ", "I", "H", "1", " ", "T", " ", "S", "\n">>

LineUnknownPhone == <<"X", "Q", " ", " ", "Q", " ", "K", "\n">>

LineNoNewline == <<"H", "i", " ", " ", "H", "H", " ", "A", "Y", "1">>

DictLines ==
    {LineComment, LineBlank, LineSpaces, LineHello,
     LineVariant, LineOneSpace, LineNoFields, LineTwoSeparators,
     LineFourSpaces, LineCloseParen, LineIndentedComment, LineDay,
     LineDigit, LineApostrophe, LineUnknownPhone, LineNoNewline}

DictFiles == SeqsUpTo(DictLines, MaxLines)

SeqLens == 1..MaxSeqLen

DefaultArgs ==
    [output_model |-> <<"g", "2", "p", ".", "p", "t">>, epochs |-> 0, batch_size |-> 1,
     max_word_len |-> 1, max_phoneme_len |-> 1]

(***************************************************************************)
(* The converter on its own                                                *)
(***************************************************************************)
InitConv ==
    /\ pc = "convert"
    /\ arpabet \in ArpabetInputs
    /\ ipa = NoValue
    /\ exc = "none"
    /\ args = DefaultArgs
    /\ cmu_dict = <<>>
    /\ char_mapper = CharMapper
    /\ data = <<>>
    /\ lineno = 0
    /\ log = <<>>
    /\ item = NoItem
    /\ split = NoSplit
    /\ epoch = 0
    /\ batch = 0
    /\ opt_steps = 0
    /\ val_losses = 0
    /\ disk = NoFiles
    /\ onnx_result = "None"

NextConv == ConvertCall

SpecConv == InitConv /\ [][NextConv]_vars

(***************************************************************************)
(* The dataset on its own: construction, then element access               *)
(***************************************************************************)
InitData ==
    /\ pc = "dataset"
    /\ cmu_dict \in DictFiles
    /\ \E w \in SeqLens, p \in SeqLens :
          args = [DefaultArgs EXCEPT !.max_word_len = w, !.max_phoneme_len = p]
    /\ char_mapper = CharMapper
    /\ arpabet = NoValue
    /\ ipa = NoValue
    /\ exc = "none"
    /\ data = <<>>
    /\ lineno = 0
    /\ log = <<>>
    /\ item = NoItem
    /\ split = NoSplit
    /\ epoch = 0
    /\ batch = 0
    /\ opt_steps = 0
    /\ val_losses = 0
    /\ disk = NoFiles
    /\ onnx_result = "None"

NextData == DatasetInit \/ LoadLine \/ LoadDone \/ ElementAccess

SpecData == InitData /\ [][NextData]_vars

(***************************************************************************)
(* The train command                                                       *)
(***************************************************************************)
TrainFiles ==
    {<<>>,
     <<LineComment, LineHello>>,
     <<LineHello, LineVariant, LineDay>>,
     <<LineHello, LineDay, LineDigit>>,
     <<LineComment, LineHello, LineDay, LineOneSpace, LineDigit, LineApostrophe>>}

OutputModels ==
    {<<"m", ".", "p", "t">>,
     <<"o", "/", "m", ".", "p", "t">>,
     <<"m", ".", "b", "i", "n">>,
     <<"m", ".", "p", "t", "h">>,
     <<"r", ".", "p", "t", "/", "m", ".", "p", "t">>,
     <<"x", "/", "m", ".", "p", "t">>}

Init ==
    /\ pc = "start"
    /\ exc = "none"
    /\ args \in [output_model : OutputModels, epochs : 0..MaxEpochs,
                 batch_size : 1..MaxBatchSize, max_word_len : SeqLens,
                 max_phoneme_len : SeqLens]
    /\ cmu_dict \in TrainFiles
    /\ char_mapper = NoMapper
    /\ data = <<>>
    /\ lineno = 0
    /\ log = <<>>
    /\ item = NoItem
    /\ arpabet = NoValue
    /\ ipa = NoValue
    /\ split = NoSplit
    /\ epoch = 0
    /\ batch = 0
    /\ opt_steps = 0
    /\ val_losses = 0
    /\ disk = NoFiles
    /\ onnx_result = "None"

Next ==
    \/ MapperInit
    \/ DatasetInit
    \/ LoadLine
    \/ LoadDone
    \/ SplitDataset
    \/ CreateModel
    \/ EpochBegin
    \/ TrainBatch
    \/ BeginValidation
    \/ ValBatch
    \/ EpochEnd
    \/ SaveModel
    \/ SaveMappings
    \/ ExportWrite
    \/ ExportVerify

Spec == Init /\ [][Next]_vars

(***************************************************************************)
(* Properties of the converter and of the dataset                          *)
(***************************************************************************)
\* the IPA forms of the tokens that are in the lookup table, concatenated in order
RECURSIVE ExpectedIPA(_)
ExpectedIPA(tokens) ==
    IF tokens = <<>> THEN <<>>
    ELSE LET known == {e \in arpabet_to_ipa : e[1] = Head(tokens)}
         IN  (IF known = {} THEN <<>> ELSE (CHOOSE e \in known : TRUE)[2])
             \o ExpectedIPA(Tail(tokens))

\* C6: convert_arpabet_to_ipa returns, for a transcription written as tokens
\* separated by whitespace, the concatenation in input order and without
\* separators of the table forms of the tokens that are in the table; a token
\* that is not in the table adds nothing and does not abort the conversion;
\* 'HH AH0 L OW1' gives the IPA string of "hello".
C6_ConverterConcatenates ==
    pc = "converted" =>
        /\ exc = "none"
        /\ \A t \in SeqsUpTo(PhoneTokens, MaxPhones), s \in Separators, m \in Margins :
              arpabet = m \o JoinWith(t, s) \o m => ipa = ExpectedIPA(t)
        /\ arpabet = HelloArpabet => ipa = HelloIPA

C6_Witness ==
    /\ pc = "converted"
    /\ arpabet = <<"Q", " ", "L">>
    /\ ipa = <<"l">>
    /\ log = <<Warning(<<"Q">>)>>

\* the line is neither a comment nor blank
IsContentLine(line) ==
    /\ ~ StartsWith(line, CommentMarker)
    /\ \E i \in 1..Len(line) : line[i] \notin Whitespace

\* position of the first double space of a trimmed line, 0 if there is none
FirstSeparator(t) ==
    LET at == {k \in 1..(Len(t) - 1) : t[k] = " " /\ t[k + 1] = " "}
    IN  IF at = {} THEN 0 ELSE MinOf(at)

WordField(t) == [i \in 1..(FirstSeparator(t) - 1) |-> t[i]]

TranscriptionField(t) ==
    [i \in 1..(Len(t) - FirstSeparator(t) - 1) |-> t[FirstSeparator(t) + 1 + i]]

\* str.split(sep): every occurrence of sep separates
RECURSIVE SplitAll(_, _)
SplitAll(s, sep) ==
    LET i == Find(s, sep)
    IN  IF i = 0 THEN <<s>>
        ELSE <<SubSeq(s, 1, i - 1)>> \o SplitAll(SubSeq(s, i + Len(sep), Len(s)), sep)

\* the line gives an entry: two fields around the first double space, no "(" in the word
GivesEntry(line) ==
    /\ IsContentLine(line)
    /\ FirstSeparator(Strip(line)) # 0
    /\ "(" \notin Range(WordField(Strip(line)))

\* the line gives an entry as the claim words it: exactly two fields when split on
\* the double space, no parenthesis in the word
GivesEntryTwoFields(line) ==
    /\ IsContentLine(line)
    /\ Len(SplitAll(Strip(line), FieldSeparator)) = 2
    /\ Range(WordField(Strip(line))) \cap {"(", ")"} = {}

EntryOf(line) ==
    <<Lower(WordField(Strip(line))),
      convert_arpabet_to_ipa(TranscriptionField(Strip(line))).ipa>>

EntriesOf(lines, Test(_)) ==
    LET kept == SelectSeq(lines, Test)
    IN  [k \in 1..Len(kept) |-> EntryOf(kept[k])]

\* C5 (as amended): after CMUDictDataset has parsed a dictionary file its entry
\* list holds, in file order, exactly one (lowercased word, IPA) pair for each
\* line that does not start with ';;;', is not empty after trimming, contains the
\* double-space separator (the trimmed line is split once, at its first
\* occurrence) and whose word contains no '('; every other line gives no entry.
C5_EntriesOfFile ==
    /\ data = EntriesOf(SubSeq(cmu_dict, 1, lineno), GivesEntry)
    /\ pc = "loaded" => lineno = Len(cmu_dict)

C5_Witness ==
    /\ pc = "loaded"
    /\ cmu_dict = <<LineVariant, LineHello>>
    /\ data = <<<<<<"h", "e", "l", "l", "o">>, HelloIPA>>>>

\* C5 (as claimed): the same with "exactly two fields when split on the double
\* space" and "no parenthesis in the word".
C5_EntriesOfFileAsClaimed ==
    /\ data = EntriesOf(SubSeq(cmu_dict, 1, lineno), GivesEntryTwoFields)
    /\ pc = "loaded" => lineno = Len(cmu_dict)

\* C7: element access returns an input sequence of exactly max_word_len entries;
\* entry i, for i up to min(L, max_word_len), is the grapheme-table index of the
\* i-th character of the word, or 1 if the character is not in the grapheme
\* alphabet; every other entry is 0; a longer word is truncated without an error.
C7_WordTensor ==
    item.idx >= 0 =>
        LET word == data[item.idx + 1][1]
            t == item.value.word_tensor
            n == args.max_word_len
            known(c) == {k \in 0..(Len(char_mapper.chars) - 1) : char_mapper.chars[k + 1] = c}
        IN  /\ exc = "none"
            /\ DOMAIN t = 1..n
            /\ \A i \in 1..n :
                  IF i <= Len(word)
                  THEN IF known(word[i]) = {} THEN t[i] = 1 ELSE t[i] \in known(word[i])
                  ELSE t[i] = 0

C7_Witness ==
    /\ item.idx >= 0
    /\ data[item.idx + 1][1] = <<"b", "2", "b">>
    /\ args.max_word_len = 2
    /\ item.value.word_tensor = <<3, 1>>

\* the step consumes a line that is not a comment, not blank and has no two fields
DropsMalformedLine ==
    /\ pc = "lines"
    /\ lineno' = lineno + 1
    /\ IsContentLine(cmu_dict[lineno'])
    /\ FirstSeparator(Strip(cmu_dict[lineno'])) = 0

\* the step consumes a line whose transcription holds a code outside the table
SkipsUnknownPhoneme ==
    /\ pc = "lines"
    /\ lineno' = lineno + 1
    /\ Len(data') = Len(data) + 1
    /\ \E tok \in Range(SplitWhitespace(TranscriptionField(Strip(cmu_dict[lineno'])))) :
          tok \notin ArpabetCodes

\* the step is an element access that maps a character outside the grapheme
\* alphabet to the unknown index
MapsUnknownCharacter ==
    /\ pc = "loaded"
    /\ item'.idx >= 0
    /\ \E i \in 1..args.max_word_len :
          /\ i <= Len(data[item'.idx + 1][1])
          /\ data[item'.idx + 1][1][i] \notin Range(char_mapper.chars)
          /\ item'.value.word_tensor[i] = 1

\* C4: every parse-level soft failure produces a log line: whenever a malformed
\* dictionary line is dropped, an unknown phoneme code is skipped or a character
\* outside the vocabulary is mapped to the unknown index 1, a log message is
\* emitted for that event, and the run is not aborted by it.
C4_SoftFailuresLogged ==
    [][(DropsMalformedLine \/ SkipsUnknownPhoneme \/ MapsUnknownCharacter)
        => (Len(log') > Len(log) /\ exc' = "none")]_vars

\* C9: every character of every IPA form the converter produces is a symbol of
\* the phoneme table, so the tensorized target of a transcription made only of
\* known phoneme codes has no unknown index 1 within its first
\* min(len(ipa), max_phoneme_len) entries.
C9_TargetsHaveNoUnknown ==
    /\ \A k \in 1..Len(data) : Range(data[k][2]) \subseteq Range(char_mapper.ipa_chars)
    /\ (item.idx >= 0 /\ \A r \in Range(log) : r[1] # "WARNING") =>
          \A i \in 1..args.max_phoneme_len :
             i <= Len(data[item.idx + 1][2]) => item.value.ipa_tensor[i] # 1

(***************************************************************************)
(* Properties of the train command                                         *)
(***************************************************************************)
AfterEpochLoop == pc \in {"mappings", "export", "verify", "done"}

ExportWritten == pc \in {"verify", "done"}

\* C1 (as amended): when train_model runs with epoch count 0 no parameter update
\* is performed, no validation loss is computed (validation runs inside the
\* epoch loop, once per epoch), the run does not stop in the loop, and the export
\* writes the untouched initial parameters.
C1_ZeroEpochs ==
    args.epochs = 0 =>
        /\ opt_steps = 0
        /\ val_losses = 0
        /\ pc \notin {"train", "validate"}
        /\ exc \notin {"criterion: ValueError", "ZeroDivisionError"}
        /\ ExportWritten => disk[OnnxPath(args.output_model)] = <<"onnx", 0>>

C1_Witness ==
    /\ args.epochs = 0
    /\ pc = "done"
    /\ split.val # {}
    /\ val_losses = 0
    /\ disk[OnnxPath(args.output_model)] = <<"onnx", 0>>

\* C1 (as claimed): when train_model runs with epoch count 0 no parameter update
\* is performed, the validation loss is still computed exactly once over the
\* validation partition, and the export runs on the untouched initial parameters.
C1_ZeroEpochsAsClaimed ==
    (args.epochs = 0 /\ AfterEpochLoop) =>
        /\ opt_steps = 0
        /\ val_losses = NumBatches(Cardinality(split.val), args.batch_size)
        /\ ExportWritten => disk[OnnxPath(args.output_model)] = <<"onnx", 0>>

\* C2: a failure of the graph-construction/write step of export_to_onnx is
\* reported as an export failure (logged, the function returns False), no
\* exception reaches the caller, and export_to_onnx returns a boolean for every
\* outcome of the write step and of the two verification steps.
C2_ExportFailureReported ==
    /\ exc \notin {"torch.onnx.export: FileNotFoundError", "torch.onnx.export: error"}
    /\ pc = "done" => onnx_result \in {"True", "False"}

\* the table has no symbol twice and index_of(symbol_at(i)) = i for every index
Bijective(symbols, index_of) ==
    /\ \A i, j \in 1..Len(symbols) : symbols[i] = symbols[j] => i = j
    /\ \A i \in 1..Len(symbols) : index_of[symbols[i]] = i - 1

\* C3: in both tables built by CharMapper every symbol occurs at exactly one
\* index and the symbol-to-index map is a bijection onto 0..size-1.
C3_TablesBijective ==
    pc # "start" =>
        /\ Bijective(char_mapper.chars, char_mapper.char_to_idx)
        /\ Bijective(char_mapper.ipa_chars, char_mapper.ipa_to_idx)

\* C8: a parameter update can only occur when max_word_len equals
\* max_phoneme_len; when the two differ, epochs >= 1 and the training partition
\* is not empty, the loss of the first training batch is a shape-mismatch error
\* that ends the run before any parameter update and before the model file, the
\* mapping files or the export are written.
C8_UpdateNeedsEqualLengths ==
    /\ opt_steps > 0 => args.max_word_len = args.max_phoneme_len
    /\ (/\ args.max_word_len # args.max_phoneme_len
        /\ args.epochs >= 1
        /\ split.train # {}) =>
            /\ opt_steps = 0
            /\ val_losses = 0
            /\ DOMAIN disk = {}
            /\ onnx_result = "None"
            /\ \/ pc \in {"model", "epoch"} /\ epoch = 0
               \/ pc = "train" /\ epoch = 1 /\ batch = 0
               \/ pc = "crashed" /\ exc = "criterion: ValueError" /\ epoch = 1 /\ batch = 0

C8_Witness ==
    /\ args.max_word_len = 2
    /\ args.max_phoneme_len = 3
    /\ split.train # {}
    /\ pc = "crashed"
    /\ exc = "criterion: ValueError"
    /\ opt_steps = 0
    /\ DOMAIN disk = {}

\* C10: the persisted parameter file and the exported graph file are distinct
\* files for every output model path: the export path differs from the output
\* path and the export leaves the saved parameter file unchanged.
C10_ExportKeepsParameterFile ==
    ExportWritten =>
        /\ OnnxPath(args.output_model) # args.output_model
        /\ disk[args.output_model] = <<"state_dict", opt_steps>>

====
